---- MODULE Spec2Model ----
(***************************************************************************)
(* Model of project/networks/DQN.py: the DeepQNetwork estimator            *)
(* (compute_q_vals, compute_targets, start_episode, step_episode) and the  *)
(* training run kept in the file's DEPRECATED block (get_epsilon,          *)
(* train_QNet, run_episodes).                                              *)
(*                                                                         *)
(* Floating point values are modelled as records: a finite value in tenths *)
(* ([k |-> "fin", v |-> 45] is 4.5), an infinity with its sign in v, or    *)
(* NaN.  Tensors of shape (N,1) are sequences of N values, tensors of      *)
(* shape (N,width) are sequences of N rows, a row being a function from    *)
(* the column index 0..width-1 to a value.                                 *)
(***************************************************************************)
EXTENDS Integers, Sequences, FiniteSets, TLC

VARIABLES
    \* ---- run_episodes / train_QNet (the training run) ----
    pc,                 \* position in run_episodes
    num_episodes,       \* run_episodes argument
    batch_size,         \* run_episodes argument
    semi_grad,          \* run_episodes argument
    env,                \* the environment: what reset and step can return
    action_space,       \* what policy.sample_action can return
    env_elapsed,        \* environment's hidden state: steps since reset
    i,                  \* episode index of the for loop
    state,              \* run_episodes' local `state`
    self_state,         \* DeepQNetwork.state
    steps,              \* steps of the current episode
    global_steps,       \* cumulative steps of the run
    epsilon,            \* the policy's exploration parameter (x 100000)
    transition,         \* the tuple formed by the last environment step
    memory,             \* the ReplayMemory's contents, oldest first
    episode_durations,  \* run_episodes' result list
    opt_steps,          \* number of optimizer.step() calls (parameter version)
    n_samples,          \* number of memory.sample() calls
    ret,                \* what the last train_QNet call returned
    q_grad,             \* q_val.requires_grad in the last update
    target_grad,        \* target.requires_grad in the last update
    batch,              \* indices drawn by the last memory.sample()
    \* ---- history of the run (not program state) ----
    pushed,             \* every transition pushed so far, in push order
    ep_log,             \* the transitions of the current episode
    reset_state,        \* what env.reset() returned for the current episode
    \* ---- direct calls of the estimator's methods ----
    call,               \* the arguments of the call
    result              \* what the call returned

runVars == <<pc, num_episodes, batch_size, semi_grad, env, action_space,
             env_elapsed, i, state, self_state, steps, global_steps, epsilon,
             transition, memory, episode_durations, opt_steps, n_samples, ret,
             q_grad, target_grad, batch, pushed, ep_log, reset_state>>
fnVars == <<call, result>>
vars == <<runVars, fnVars>>

----------------------------------------------------------------------------
(* Bounds of the model *)

MaxRows == 2          \* rows of a batch in a direct call
MaxEpisodes == 2      \* num_episodes ranges over 1..MaxEpisodes
MaxEpLen == 2         \* an episode lasts 1..MaxEpLen environment steps
MaxBatch == 3         \* batch_size ranges over 1..MaxBatch
Capacity == 2         \* capacity of the ReplayMemory (10000 in run_episodes)
LongEpisodes == 501   \* num_episodes of the long run
LongEpLen == 2        \* episode length of the long run

(* Program constants *)

out_features == 2     \* DeepQNetwork.__init__ default: number of actions
EpsHorizon == 1000    \* get_epsilon: the schedule's horizon
EpsFloor == 5000      \* get_epsilon: the floor 0.05, in units of 1/100000

----------------------------------------------------------------------------
(* Floating point *)

Fin(n) == [k |-> "fin", v |-> n]
PInf == [k |-> "inf", v |-> 1]
NInf == [k |-> "inf", v |-> -1]
NaN == [k |-> "nan", v |-> 0]

Sign(n) == IF n > 0 THEN 1 ELSE IF n < 0 THEN -1 ELSE 0

\* a * b.  Finite values are tenths, so the product is rescaled by 10.
FMul(a, b) ==
    IF a.k = "nan" \/ b.k = "nan" THEN NaN
    ELSE IF a.k = "inf" \/ b.k = "inf"
         THEN IF Sign(a.v) * Sign(b.v) = 0 THEN NaN
              ELSE [k |-> "inf", v |-> Sign(a.v) * Sign(b.v)]
         ELSE Fin((a.v * b.v) \div 10)

\* a + b
FAdd(a, b) ==
    IF a.k = "nan" \/ b.k = "nan" THEN NaN
    ELSE IF a.k = "inf" /\ b.k = "inf"
         THEN IF a.v = b.v THEN a ELSE NaN
         ELSE IF a.k = "inf" THEN a
         ELSE IF b.k = "inf" THEN b
         ELSE Fin(a.v + b.v)

\* a <= b, false when either is NaN
FLeq(a, b) ==
    /\ a.k # "nan" /\ b.k # "nan"
    /\ IF a.k = "inf" THEN a.v = -1 \/ b = PInf
       ELSE IF b.k = "inf" THEN b.v = 1
       ELSE a.v <= b.v

IsFinite(a) == a.k = "fin"

\* an integer tensor entry converted to float
FromInt(m) == Fin(10 * m)

----------------------------------------------------------------------------
(* DeepQNetwork: the estimator *)

Observations == {0, 1}                       \* observation ids
OutVals == {Fin(20), Fin(50), PInf}          \* what the network can output
Columns == 0 .. (out_features - 1)
\* the parameters: self.model as a map from an input row to its output row
Networks == [Observations -> [Columns -> OutVals]]

\* forward: nn.Sequential of Linear / ReLU layers acts on each row alone
forward(net, x) == [r \in 1 .. Len(x) |-> net[x[r]]]

\* mutant of RowMax: the first column instead of the maximum
RowMax_first(row) == row[0]

\* torch.max(., dim=1).values for one row; NaN propagates
RowMax(row) ==
    IF \E c \in DOMAIN row : row[c].k = "nan" THEN NaN
    ELSE CHOOSE m \in {row[c] : c \in DOMAIN row} :
             \A c \in DOMAIN row : FLeq(row[c], m)

\* mutant of GatherRow: the index is ignored
GatherRow_col0(row, a) ==
    IF a \in DOMAIN row THEN [ok |-> TRUE, v |-> row[0]]
    ELSE [ok |-> FALSE, v |-> NaN]

\* mutant of GatherRow: an index out of range wraps around
GatherRow_wrap(row, a) ==
    [ok |-> TRUE, v |-> row[a % Cardinality(DOMAIN row)]]

\* torch.gather(out, 1, actions) for one row: the index must be a column
GatherRow(row, a) ==
    IF a \in DOMAIN row THEN [ok |-> TRUE, v |-> row[a]]
    ELSE [ok |-> FALSE, v |-> NaN]

\* torch.gather(out, 1, actions): raises when an index is out of bounds
Gather(out, actions) ==
    LET g == [r \in 1 .. Len(out) |-> GatherRow(out[r], actions[r])]
    IN  IF \A r \in 1 .. Len(out) : g[r].ok
        THEN [status |-> "ok", val |-> [r \in 1 .. Len(out) |-> g[r].v]]
        ELSE [status |-> "error", val |-> <<>>]

compute_q_vals(net, states, actions) ==
    LET out == forward(net, states)
    IN  Gather(out, actions)

\* done == True, elementwise, for a tensor of the given dtype
EqTrue(x, dtype) ==
    CASE dtype = "bool" -> x = TRUE
      [] dtype = "float32" -> x = Fin(10)
      [] OTHER -> x = 1

\* mutant of SwitchUint8: the factor -1 is missing
SwitchUint8_nosign(d) == (d - 1) % 256

\* (done - 1) * -1 on an 8-bit unsigned entry
SwitchUint8(d) == (((d - 1) % 256) * (-1)) % 256

\* the mask adjusted_dones, one uint8 entry per row
AdjustedDones(done, dtype) ==
    IF dtype # "uint8"
    THEN [r \in 1 .. Len(done) |-> IF EqTrue(done[r], dtype) THEN 0 ELSE 1]
    ELSE [r \in 1 .. Len(done) |-> SwitchUint8(done[r])]

\* reward + adjusted_dones * self.discount_factor * next_max, for one row
TargetRow(reward, adjusted, discount_factor, next_max) ==
    FAdd(reward, FMul(FMul(FromInt(adjusted), discount_factor), next_max))

compute_targets(net, discount_factor, reward, next_state, done, dtype) ==
    LET next_q_vals == forward(net, next_state)
        next_max == [r \in 1 .. Len(next_state) |-> RowMax(next_q_vals[r])]
        adjusted_dones == AdjustedDones(done, dtype)
    IN  [status |-> "ok",
         val |-> [r \in 1 .. Len(next_state) |->
                     TargetRow(reward[r], adjusted_dones[r], discount_factor,
                               next_max[r])]]

----------------------------------------------------------------------------
(* Direct calls of compute_q_vals and compute_targets *)

Batches(S) == UNION {[1 .. n -> S] : n \in 1 .. MaxRows}
ActionIndices == -1 .. out_features          \* valid columns and both neighbours
RewardVals == {Fin(0), Fin(10)}
Discounts == {Fin(8), Fin(9)}                \* 0.8 (the default) and 0.9
DoneDtypes == {"uint8", "bool", "float32", "int64"}

\* a logical done flag as an entry of a tensor of the given dtype
Encode(flag, dtype) ==
    CASE dtype = "bool" -> flag
      [] dtype = "float32" -> (IF flag THEN Fin(10) ELSE Fin(0))
      [] OTHER -> (IF flag THEN 1 ELSE 0)

Pending == [status |-> "pending", val |-> <<>>]

\* the arguments of one compute_q_vals call
QCall(net, rows) ==
    [fn |-> "q", net |-> net, rows |-> rows, discount_factor |-> Fin(8),
     dtype |-> "uint8"]
QRows == [state : Observations, action : ActionIndices, reward : {Fin(0)},
          flag : {FALSE}]

\* the arguments of one compute_targets call
TCall(net, rows, g, dt) ==
    [fn |-> "t", net |-> net, rows |-> rows, discount_factor |-> g,
     dtype |-> dt]
TRows == [state : Observations, action : {0}, reward : RewardVals,
          flag : BOOLEAN]

NoCall == [fn |-> "none", net |-> [o \in Observations |-> [c \in Columns |-> Fin(0)]],
           rows |-> <<>>, discount_factor |-> Fin(8), dtype |-> "uint8"]

Col(rows, f) == [r \in 1 .. Len(rows) |-> rows[r][f]]
DoneCol(c) == [r \in 1 .. Len(c.rows) |-> Encode(c.rows[r].flag, c.dtype)]

CallQVals ==
    /\ pc = "call" /\ call.fn = "q" /\ result.status = "pending"
    /\ result' = compute_q_vals(call.net, Col(call.rows, "state"),
                                Col(call.rows, "action"))
    /\ UNCHANGED <<runVars, call>>

CallTargets ==
    /\ pc = "call" /\ call.fn = "t" /\ result.status = "pending"
    /\ result' = compute_targets(call.net, call.discount_factor,
                                 Col(call.rows, "reward"),
                                 Col(call.rows, "state"), DoneCol(call),
                                 call.dtype)
    /\ UNCHANGED <<runVars, call>>

----------------------------------------------------------------------------
(* get_epsilon, in units of 1/100000:  1.0 - 0.95 * it / 1000, then 0.05 *)

\* mutant of get_epsilon: the linear decay without the floor
get_epsilon_nofloor(it) == 100000 - 95 * it

get_epsilon(it) == IF it < 1000 THEN 100000 - 95 * it ELSE 5000

----------------------------------------------------------------------------
(* ReplayMemory (module .memory): a FIFO store of at most `capacity`       *)
(* transitions, sampled without replacement                                *)

\* mutant of push: at capacity the newest entry is replaced
push_newest(mem, capacity, t) ==
    IF Len(mem) >= capacity
    THEN Append(SubSeq(mem, 1, Len(mem) - 1), t)
    ELSE Append(mem, t)

push(mem, capacity, t) ==
    IF Len(mem) >= capacity THEN Append(Tail(mem), t) ELSE Append(mem, t)

\* the index sets memory.sample(n) can draw
sample(mem, n) == {S \in SUBSET (1 .. Len(mem)) : Cardinality(S) = n}

----------------------------------------------------------------------------
(* Gradient tracking.  The estimator's parameters require grad, so what is *)
(* computed from them requires grad exactly when grad mode is enabled.     *)

ForwardRequiresGrad(grad_enabled) == grad_enabled
\* torch.gather keeps the dependence of forward's output
QValsRequiresGrad(grad_enabled) == ForwardRequiresGrad(grad_enabled)
\* max, * and + keep it; train_QNet's reward tensor does not require grad
TargetsRequiresGrad(grad_enabled) == ForwardRequiresGrad(grad_enabled)
\* mutant of TargetGradEnabled: the no_grad block is missing
TargetGradEnabled_always(sg) == TRUE

\* train_QNet: compute_targets runs under torch.no_grad() iff semi_grad
TargetGradEnabled(sg) == ~sg

----------------------------------------------------------------------------
(* The training run: run_episodes with train_QNet, and the episode methods *)
(* start_episode / step_episode.  The episode protocol is in the source    *)
(* twice, inline in run_episodes (local `state`) and as the two methods    *)
(* (self.state); the model performs one environment interaction and        *)
(* records what each form does with it.                                    *)

NoState == -1
NoTransition == [state |-> NoState, action |-> 0, reward |-> 0,
                 next_state |-> NoState, done |-> FALSE]

\* mutant of step_episode: self.state is not advanced
step_episode_stale(s, action, next_state, reward, done) ==
    [transition |-> [state |-> s, action |-> action, reward |-> reward,
                     next_state |-> next_state, done |-> done],
     done |-> done,
     state |-> s]

\* step_episode's returned tuple and new self.state
step_episode(s, action, next_state, reward, done) ==
    [transition |-> [state |-> s, action |-> action, reward |-> reward,
                     next_state |-> next_state, done |-> done],
     done |-> done,
     state |-> next_state]

\* the done flags env.step can return at the episode's n-th step
EnvDones(e, n) ==
    {d \in BOOLEAN : /\ d => n \in e.lens
                     /\ ~d => \E l \in e.lens : l > n}

\* for i in range(num_episodes): state = env.reset(); steps = 0
\* start_episode: self.state = env.reset()
StartEpisode ==
    /\ pc = "reset" /\ i < num_episodes
    /\ \E s0 \in env.reset :
          /\ state' = s0
          /\ self_state' = s0
          /\ reset_state' = s0
    /\ env_elapsed' = 0
    /\ steps' = 0
    /\ ep_log' = <<>>
    /\ pc' = "act"
    /\ UNCHANGED <<num_episodes, batch_size, semi_grad, env, action_space, i,
                   global_steps, epsilon, transition, memory,
                   episode_durations, opt_steps, n_samples, ret, q_grad,
                   target_grad, batch, pushed, fnVars>>

\* the for loop is exhausted: return episode_durations
Return ==
    /\ pc = "reset" /\ i >= num_episodes
    /\ pc' = "returned"
    /\ UNCHANGED <<num_episodes, batch_size, semi_grad, env, action_space,
                   env_elapsed, i, state, self_state, steps, global_steps,
                   epsilon, transition, memory, episode_durations, opt_steps,
                   n_samples, ret, q_grad, target_grad, batch, pushed, ep_log,
                   reset_state, fnVars>>

\* policy.set_epsilon(get_epsilon(global_steps)); action = sample_action(state);
\* next_state, reward, done, _ = env.step(action)
StepEpisode ==
    /\ pc = "act"
    /\ epsilon' = get_epsilon(global_steps)
    /\ \E action \in action_space :
       \E next_state \in env.move[action], reward \in env.rewards,
          done \in EnvDones(env, env_elapsed + 1) :
          LET r == step_episode(self_state, action, next_state, reward, done)
          IN  /\ transition' = r.transition
              /\ self_state' = r.state
              /\ ep_log' = Append(ep_log, r.transition)
    /\ env_elapsed' = env_elapsed + 1
    /\ pc' = "push"
    /\ UNCHANGED <<num_episodes, batch_size, semi_grad, env, action_space, i,
                   state, steps, global_steps, memory, episode_durations,
                   opt_steps, n_samples, ret, q_grad, target_grad, batch,
                   pushed, reset_state, fnVars>>

\* memory.push((state, action, reward, next_state, done))
Push ==
    /\ pc = "push"
    /\ memory' = push(memory, Capacity, [transition EXCEPT !.state = state])
    /\ pushed' = Append(pushed, [transition EXCEPT !.state = state])
    /\ pc' = "train"
    /\ UNCHANGED <<num_episodes, batch_size, semi_grad, env, action_space,
                   env_elapsed, i, state, self_state, steps, global_steps,
                   epsilon, transition, episode_durations, opt_steps,
                   n_samples, ret, q_grad, target_grad, batch, ep_log,
                   reset_state, fnVars>>

\* mutant of Skips: off by one
Skips_offbyone(mem, n) == Len(mem) <= n

\* train_QNet's guard: if len(memory) < batch_size: return None
Skips(mem, n) == Len(mem) < n

\* train_QNet(Q_network, memory, optimizer, batch_size, semi_grad)
TrainQNet ==
    /\ pc = "train"
    /\ IF Skips(memory, batch_size)
       THEN /\ ret' = "None"
            /\ UNCHANGED <<opt_steps, n_samples, q_grad, target_grad, batch>>
       ELSE /\ \E S \in sample(memory, batch_size) : batch' = S
            /\ n_samples' = n_samples + 1
            /\ q_grad' = QValsRequiresGrad(TRUE)
            /\ target_grad' = TargetsRequiresGrad(TargetGradEnabled(semi_grad))
            /\ opt_steps' = opt_steps + 1
            /\ ret' = "loss"
    /\ pc' = "advance"
    /\ UNCHANGED <<num_episodes, batch_size, semi_grad, env, action_space,
                   env_elapsed, i, state, self_state, steps, global_steps,
                   epsilon, transition, memory, episode_durations, pushed,
                   ep_log, reset_state, fnVars>>

\* state = next_state; global_steps += 1; steps += 1; if done: ... break
Advance ==
    /\ pc = "advance"
    /\ state' = transition.next_state
    /\ global_steps' = global_steps + 1
    /\ steps' = steps + 1
    /\ IF transition.done
       THEN /\ episode_durations' = Append(episode_durations, steps + 1)
            /\ i' = i + 1
            /\ pc' = "reset"
       ELSE /\ pc' = "act"
            /\ UNCHANGED <<episode_durations, i>>
    /\ UNCHANGED <<num_episodes, batch_size, semi_grad, env, action_space,
                   env_elapsed, self_state, epsilon, transition, memory,
                   opt_steps, n_samples, ret, q_grad, target_grad, batch,
                   pushed, ep_log, reset_state, fnVars>>

----------------------------------------------------------------------------
(* Specifications *)

\* the environments: reset returns a state of `reset`, step(action) a next
\* state of move[action] and a reward of `rewards`, and an episode lasts a
\* number of steps of `lens`
ShortEnv == [reset |-> Observations, move |-> [a \in Columns |-> {1 - a}],
             rewards |-> {1}, lens |-> 1 .. MaxEpLen]
LongEnv == [reset |-> {0}, move |-> [a \in Columns |-> {1}], rewards |-> {1},
            lens |-> {LongEpLen}]

InitRun(episodes, batches, sgs, e, acts) ==
    /\ pc = "reset"
    /\ num_episodes \in episodes
    /\ batch_size \in batches
    /\ semi_grad \in sgs
    /\ env = e
    /\ action_space = acts
    /\ env_elapsed = 0
    /\ i = 0
    /\ state = NoState
    /\ self_state = NoState
    /\ steps = 0
    /\ global_steps = 0
    /\ epsilon = 5000
    /\ transition = NoTransition
    /\ memory = <<>>
    /\ episode_durations = <<>>
    /\ opt_steps = 0
    /\ n_samples = 0
    /\ ret = "not called"
    /\ q_grad = FALSE
    /\ target_grad = FALSE
    /\ batch = {}
    /\ pushed = <<>>
    /\ ep_log = <<>>
    /\ reset_state = NoState
    /\ call = NoCall
    /\ result = Pending

\* short runs over every environment behaviour
Init == InitRun(1 .. MaxEpisodes, 1 .. MaxBatch, BOOLEAN, ShortEnv, Columns)

\* one long run, past the horizon of the exploration schedule
InitLong == InitRun({LongEpisodes}, {Capacity}, {TRUE}, LongEnv, {0})

\* one direct call of compute_q_vals or compute_targets
InitFn ==
    /\ pc = "call"
    /\ \/ \E net \in Networks, rows \in Batches(QRows) :
             call = QCall(net, rows)
       \/ \E net \in Networks, rows \in Batches(TRows),
             g \in Discounts, dt \in DoneDtypes :
             call = TCall(net, rows, g, dt)
    /\ result = Pending
    /\ num_episodes = 0
    /\ batch_size = 1
    /\ semi_grad = TRUE
    /\ env = ShortEnv
    /\ action_space = Columns
    /\ env_elapsed = 0
    /\ i = 0
    /\ state = NoState
    /\ self_state = NoState
    /\ steps = 0
    /\ global_steps = 0
    /\ epsilon = 5000
    /\ transition = NoTransition
    /\ memory = <<>>
    /\ episode_durations = <<>>
    /\ opt_steps = 0
    /\ n_samples = 0
    /\ ret = "not called"
    /\ q_grad = FALSE
    /\ target_grad = FALSE
    /\ batch = {}
    /\ pushed = <<>>
    /\ ep_log = <<>>
    /\ reset_state = NoState

Next == StartEpisode \/ StepEpisode \/ Push \/ TrainQNet \/ Advance \/ Return
NextFn == CallQVals \/ CallTargets

Spec == Init /\ [][Next]_vars
SpecLong == InitLong /\ [][Next]_vars
SpecFn == InitFn /\ [][NextFn]_vars

----------------------------------------------------------------------------
(* Properties *)

TargetsReturned == pc = "call" /\ call.fn = "t" /\ result.status = "ok"
QValsCalled == pc = "call" /\ call.fn = "q" /\ result.status # "pending"
Rows == 1 .. Len(call.rows)
Last(seq) == seq[Len(seq)]

\* C1: on every row whose done flag is true compute_targets returns exactly
\* that row's reward, whatever the network outputs for next_state and
\* whatever the discount factor.
C1_TerminalTargetIsReward ==
    TargetsReturned =>
        \A r \in Rows :
            call.rows[r].flag => result.val[r] = call.rows[r].reward

\* (C1, the part that holds) the same, for the terminal rows whose network
\* output is finite in every column.
TerminalTargetIsRewardWhenFinite ==
    TargetsReturned =>
        \A r \in Rows :
            (/\ call.rows[r].flag
             /\ \A c \in Columns : IsFinite(call.net[call.rows[r].state][c]))
                => result.val[r] = call.rows[r].reward

\* C2 as stated: after a training update the target never requires grad and
\* the current value always does.
C2_TargetNeverCarriesGrad ==
    ret = "loss" => (q_grad /\ ~target_grad)

\* C2 amended: after a training update the current value requires grad, and
\* the target requires grad exactly when the update was run with
\* semi_grad = False; with semi_grad = True it never does.
C2_TargetGradOnlyWithoutSemiGrad ==
    ret = "loss" => (q_grad /\ (target_grad <=> ~semi_grad))

C2_Witness ==
    ret = "loss" /\ semi_grad /\ q_grad /\ ~target_grad /\ opt_steps >= 1

\* C3: on every row whose done flag is false compute_targets returns
\* reward + discount_factor * (the maximum of that row's network outputs);
\* discount 0.9, reward 0 and outputs [2, 5] give 4.5.
C3_NonTerminalTarget ==
    TargetsReturned =>
        \A r \in Rows :
            ~call.rows[r].flag =>
                LET out == call.net[call.rows[r].state]
                IN  /\ \E c \in Columns :
                          /\ \A d \in Columns : FLeq(out[d], out[c])
                          /\ result.val[r] =
                                FAdd(call.rows[r].reward,
                                     FMul(call.discount_factor, out[c]))
                    /\ (/\ call.discount_factor = Fin(9)
                        /\ call.rows[r].reward = Fin(0)
                        /\ out = (0 :> Fin(20) @@ 1 :> Fin(50)))
                           => result.val[r] = Fin(45)

C3_Witness ==
    /\ TargetsReturned
    /\ Len(call.rows) = 2
    /\ ~call.rows[1].flag /\ ~call.rows[2].flag
    /\ call.discount_factor = Fin(9)
    /\ call.rows[1].reward = Fin(0)
    /\ call.net[call.rows[1].state] = (0 :> Fin(20) @@ 1 :> Fin(50))
    /\ call.net[call.rows[2].state] = (0 :> Fin(50) @@ 1 :> Fin(20))
    /\ result.val[1] = Fin(45)

\* C4: for the same logical flags every representation of done (uint8,
\* bool, float, int64) yields the same mask, 0 on terminal rows and 1 on
\* the others, and compute_targets returns for each of them.
C4_MaskNormalized ==
    TargetsReturned =>
        /\ \A dt \in DoneDtypes :
              LET done == [r \in Rows |-> Encode(call.rows[r].flag, dt)]
                  mask == AdjustedDones(done, dt)
              IN  /\ Len(mask) = Len(call.rows)
                  /\ \A r \in Rows :
                        mask[r] = IF call.rows[r].flag THEN 0 ELSE 1
        /\ Len(result.val) = Len(call.rows)

C4_Witness ==
    /\ TargetsReturned
    /\ call.dtype = "uint8"
    /\ Len(call.rows) = 2
    /\ call.rows[1].flag /\ ~call.rows[2].flag
    /\ AdjustedDones(DoneCol(call), call.dtype) = <<0, 1>>

\* C5: with every action index a valid column compute_q_vals returns one
\* value per row, row r being forward(states)[r][actions[r]]; it never
\* exceeds the maximum of that row, the greedy index included.
C5_SelectsTakenAction ==
    QValsCalled =>
        ((\A r \in Rows : call.rows[r].action \in Columns) =>
            /\ result.status = "ok"
            /\ Len(result.val) = Len(call.rows)
            /\ \A r \in Rows :
                  LET out == call.net[call.rows[r].state]
                  IN  /\ result.val[r] = out[call.rows[r].action]
                      /\ \E c \in Columns :
                            /\ \A d \in Columns : FLeq(out[d], out[c])
                            /\ FLeq(result.val[r], out[c]))

C5_Witness ==
    /\ QValsCalled /\ result.status = "ok"
    /\ Len(call.rows) = 2
    /\ call.rows[1].action = 0 /\ call.rows[2].action = 1
    /\ call.rows[1].state = call.rows[2].state
    /\ result.val[1] # result.val[2]

\* C6: train_QNet called while len(memory) < batch_size returns None, draws
\* no sample, takes no optimizer step and leaves parameters and buffer
\* unchanged; called with len(memory) >= batch_size it draws one sample,
\* takes one optimizer step and returns a loss.
C6_SkipIsNoOp ==
    [][pc = "train" =>
          /\ memory' = memory
          /\ IF Len(memory) < batch_size
             THEN /\ ret' = "None"
                  /\ n_samples' = n_samples
                  /\ opt_steps' = opt_steps
                  /\ batch' = batch
             ELSE /\ ret' = "loss"
                  /\ n_samples' = n_samples + 1
                  /\ opt_steps' = opt_steps + 1
                  /\ Cardinality(batch') = batch_size]_vars

C6_Witness ==
    /\ pc = "advance" /\ ret = "None"
    /\ Len(memory) = 2 /\ batch_size = 3
    /\ opt_steps = 0 /\ n_samples = 0

\* C7: the buffer never holds more than its capacity, and it always holds
\* the most recently pushed transitions in push order: all of them until
\* the capacity is reached, the last `capacity` of them afterwards.
C7_BufferIsMostRecent ==
    /\ Len(memory) <= Capacity
    /\ LET n == Len(pushed)
           k == IF n <= Capacity THEN n ELSE Capacity
       IN  /\ Len(memory) = k
           /\ \A j \in 1 .. k : memory[j] = pushed[n - k + j]

C7_Witness ==
    /\ Len(pushed) >= Capacity + 2
    /\ Len(memory) = Capacity
    /\ memory[1] # memory[Capacity]
    /\ pushed[1] # memory[1]

\* C8: compute_q_vals called with an action index outside
\* [0, output width) on some row fails; it returns no value for the batch.
C8_OutOfRangeFails ==
    QValsCalled =>
        ((\E r \in Rows : call.rows[r].action \notin Columns) =>
            result.status = "error" /\ result.val = <<>>)

C8_Witness ==
    /\ QValsCalled /\ result.status = "error"
    /\ Len(call.rows) = 2
    /\ call.rows[1].action \in Columns
    /\ call.rows[2].action = out_features

\* C9: in an episode every transition's state is the previous transition's
\* next_state (the reset state for the first one), the current state is
\* the last next_state, one environment step is taken per transition, and
\* no step is taken after a transition whose done is true.
C9_EpisodeChain ==
    /\ \A k \in 1 .. Len(ep_log) :
          /\ ep_log[k].state =
                IF k = 1 THEN reset_state ELSE ep_log[k - 1].next_state
          /\ k < Len(ep_log) => ~ep_log[k].done
    /\ pc \in {"push", "train", "advance"} =>
          /\ ep_log # <<>> /\ transition = Last(ep_log)
          /\ self_state = transition.next_state
          /\ transition.state = state
          /\ Len(ep_log) = steps + 1
    /\ pc = "act" =>
          /\ self_state = state
          /\ Len(ep_log) = steps
          /\ ep_log # <<>> => ~Last(ep_log).done
          /\ self_state = IF ep_log = <<>> THEN reset_state
                          ELSE Last(ep_log).next_state
    /\ pc \in {"reset", "returned"} /\ ep_log # <<>> =>
          /\ Last(ep_log).done
          /\ Last(episode_durations) = Len(ep_log)

C9_Witness ==
    /\ pc = "reset" /\ i = 2
    /\ Len(ep_log) = 2
    /\ ep_log[1].next_state # reset_state
    /\ ep_log[2].next_state # ep_log[2].state
    /\ ep_log[2].done

\* C10: the exploration parameter set at an environment step is the
\* schedule's value at the cumulative step count of the run, which no
\* episode boundary resets; from one step to the next it never increases,
\* it never falls below the floor, and it is the floor from the horizon on.
C10_EpsilonSchedule ==
    /\ [](/\ epsilon >= EpsFloor
          /\ global_steps = Len(pushed) - (IF pc \in {"train", "advance"} THEN 1 ELSE 0)
          /\ pc \in {"push", "train", "advance"} =>
                epsilon = IF global_steps < EpsHorizon
                          THEN 100000 - (95 * global_steps)
                          ELSE EpsFloor)
    /\ [][/\ pc # "act" => epsilon' = epsilon
          /\ pc = "act" /\ global_steps > 0 => epsilon' <= epsilon
          /\ pc = "act" /\ global_steps >= EpsHorizon => epsilon' = EpsFloor
          /\ global_steps' >= global_steps]_vars

C10_Witness ==
    /\ pc = "push" /\ global_steps = EpsHorizon
    /\ epsilon = EpsFloor /\ i >= 2 /\ steps = 0

====
